---- MODULE Spec2Model ----
(***************************************************************************)
(* A model of the command launcher "runner" (runner.py, FileMenu.py): the  *)
(* per-entry edit state kept by CmdWidget, the document state kept by      *)
(* RunnerApp, and the New/Open/Save/SaveAs/Revert/Exit commands of         *)
(* FileMenu / RunnerFileMenu.                                              *)
(*                                                                         *)
(* Every handler is a Tk callback.  An exception raised inside a callback  *)
(* is reported by Tkinter and the callback ends there: what it assigned    *)
(* before the exception stays assigned.  The operators below therefore     *)
(* work on a record s of the program's fields, with s.exc telling that an  *)
(* exception is propagating.                                               *)
(***************************************************************************)
EXTENDS Integers, Sequences, FiniteSets, TLC

VARIABLES
    widgets,     \* RunnerApp.widgets: the list of CmdWidget objects
    row,         \* RunnerApp.row: next grid row = number of widgets under the current root
    isModified,  \* FileMenu._isModified of the current file menu
    currFile,    \* FileMenu.currFile
    cmdFile,     \* RunnerApp.cmdFile
    quit,        \* RunnerApp.quit
    fs,          \* the file system: path -> file content
    nWrites,     \* how many writes have succeeded so far
    nEvents,     \* how many events the event loop has handled so far
    cmdWidth,    \* RunnerApp.cmdWidth
    argWidth,    \* RunnerApp.args.cmdWidth: the -w option, 0 when not given
    popups,      \* the RunnerPopup windows open, each with the handler waiting in
                 \* wait_window for it; the last one is the innermost
    pc,          \* "mainloop" while root.mainloop() runs, "exited" after run() has
                 \* returned, "crashed" after an exception has ended run()
    last         \* the last event handled and how it went (history only);
                 \* last.again: it repeats the event before it

vars == <<widgets, row, isModified, currFile, cmdFile, quit, fs, nWrites, nEvents,
          cmdWidth, argWidth, popups, pc, last>>

----------------------------------------------------------------------------
(* Bounds and input sets *)

\* Longest self.widgets the model lets the program build.
MaxWidgets == 2

\* How many events the model lets the user send.
MaxEvents == 4

\* How many writes to a file the model lets succeed; later ones fail.
MaxWrites == 1

\* How many RunnerPopup windows the model lets be open at once.
MaxPopups == 2

\* Python's None for a path, and the empty string a cancelled file dialog returns.
None == "None"
Cancelled == ""

\* The files the user can name, and the positional argument of the command line.
Paths == {"f1", "f2"}
commandFile == "f1"

\* What the user types into the command field, the name prompt, the tooltip prompt.
CmdTexts == {<<"x">>, <<"z">>}
Names == {<<"n">>}
Tips == {<<"u">>}

\* File contents: json of the wrapped form {"cmds": ...} or the bare list form.
NoFile == [exists |-> FALSE]
\* A file json.load or readCmds cannot take: not json, or not a list / object.
Malformed == [exists |-> TRUE]
Doc(bare, cmds) == [exists |-> TRUE, bare |-> bare, cmds |-> cmds]
\* The wrapped form with its "width".
DocW(width, cmds) == [exists |-> TRUE, bare |-> FALSE, cmds |-> cmds, width |-> width]
DocA == Doc(FALSE, <<[button |-> <<"a">>, cmd |-> <<"x">>, tooltip |-> <<"t">>]>>)
DocB == Doc(TRUE, <<[button |-> <<"b">>, cmd |-> <<"y">>]>>)
InitialDocs == {DocA, DocB}

----------------------------------------------------------------------------
(* Python string methods, on strings as sequences of characters *)

WS == {" "}

RECURSIVE lstrip(_, _)
lstrip(str, chars) ==
    IF str # <<>> /\ Head(str) \in chars THEN lstrip(Tail(str), chars) ELSE str

RECURSIVE rstrip(_, _)
rstrip(str, chars) ==
    IF str # <<>> /\ str[Len(str)] \in chars
    THEN rstrip(SubSeq(str, 1, Len(str) - 1), chars)
    ELSE str

strip(str) == rstrip(lstrip(str, WS), WS)

----------------------------------------------------------------------------
(* CmdWidget *)

\* buttonTT / cmdTextTT: None, or a ToolTip object with its text.
NoToolTip == <<>>
ToolTip(text) == <<text>>

Raise(s) == [s EXCEPT !.exc = TRUE]

\* s1 is where a call has ended: an exception propagates, otherwise K goes on.
Try(s1, K(_)) == IF s1.exc THEN s1 ELSE K(s1)

\* A widget built under an earlier root is destroyed with it; every Tk call on
\* it raises TclError.  The widgets of the current root are the last `row` ones.
Alive(s, i) == i > Len(s.widgets) - s.row

CmdWidget_init(cmd, added) ==
    [cmd       |-> cmd,
     disabled  |-> FALSE,
     added     |-> added,
     cmdText   |-> cmd.cmd,
     button    |-> cmd.button,
     buttonTT  |-> IF "tooltip" \in DOMAIN cmd THEN ToolTip(cmd.tooltip) ELSE NoToolTip,
     cmdTextTT |-> IF "tooltip" \in DOMAIN cmd THEN ToolTip(cmd.tooltip) ELSE NoToolTip]

setToolTip(w, tooltipText) ==
    [w EXCEPT !.buttonTT = ToolTip(tooltipText), !.cmdTextTT = ToolTip(tooltipText)]

\* CmdWidget.isModified: "True", "False", or "raise" when evaluating the
\* or-chain raises (left to right, stopping at the first true operand).
CmdWidget_isModified(w, alive) ==
    IF ~alive THEN "raise"
    ELSE IF w.cmd.cmd # strip(w.cmdText) THEN "True"
    ELSE IF w.cmd.button # strip(rstrip(w.button, {"*"})) THEN "True"
    ELSE IF "tooltip" \notin DOMAIN w.cmd THEN "raise"
    ELSE IF w.buttonTT = NoToolTip THEN "raise"
    ELSE IF w.cmd.tooltip # strip(w.buttonTT[1]) THEN "True"
    ELSE IF w.cmd.tooltip # strip(w.cmdTextTT[1]) THEN "True"
    ELSE IF w.disabled THEN "True"
    ELSE IF w.added THEN "True"
    ELSE "False"

setModified(s, value) == [s EXCEPT !.isModified = value]

\* The first widget, from index i on, whose isModified() is not False.
RECURSIVE ScanWidgets(_, _)
ScanWidgets(s, i) ==
    IF i > Len(s.widgets) THEN "False"
    ELSE LET m == CmdWidget_isModified(s.widgets[i], Alive(s, i))
         IN  IF m = "False" THEN ScanWidgets(s, i + 1) ELSE m

onUpdate(s) ==
    LET m == ScanWidgets(s, 1)
    IN  IF m = "raise" THEN Raise([s EXCEPT !.scanned = TRUE])
        ELSE setModified([s EXCEPT !.scanned = TRUE], m = "True")

\* updateButton for widget i (self, or event.widget.parent), then updateCB.
updateButton(s, i) ==
    IF ~Alive(s, i) THEN Raise(s)
    ELSE LET w == s.widgets[i]
             m == CmdWidget_isModified(w, TRUE)
         IN  IF m = "raise" THEN Raise(s)
             ELSE onUpdate([s EXCEPT !.widgets[i].button =
                      rstrip(w.button, {"*"}) \o (IF m = "True" THEN <<"*">> ELSE <<>>)])

commit(s, i) ==
    IF ~Alive(s, i) THEN Raise(s)
    ELSE LET w  == s.widgets[i]
             c1 == [w.cmd EXCEPT !.button = strip(rstrip(w.button, {"*"})),
                                 !.cmd = strip(w.cmdText)]
         IN  IF w.buttonTT = NoToolTip
             THEN Raise([s EXCEPT !.widgets[i].cmd = c1])
             ELSE LET c2 == [tooltip |-> strip(w.buttonTT[1])] @@ c1
                      w2 == [setToolTip(w, c2.tooltip) EXCEPT
                                !.cmd = c2,
                                \* Entry.delete/insert do nothing on a DISABLED Entry
                                !.cmdText = IF w.disabled THEN w.cmdText ELSE c2.cmd,
                                !.added = FALSE]
                  IN  updateButton([s EXCEPT !.widgets[i] = w2], i)

\* revert treating an added entry as RunnerApp.onRevert does: by delete().
revert_deletesAdded(s, i) ==
    LET w  == s.widgets[i]
        s1 == [s EXCEPT !.widgets[i].disabled = FALSE]
        s2 == [s EXCEPT !.widgets[i].disabled = ~w.disabled]
    IN  IF w.added
        THEN IF ~Alive(s, i) THEN Raise(s2) ELSE updateButton(s2, i)
        ELSE IF ~Alive(s, i) THEN Raise(s1)
        ELSE LET w2 == [w EXCEPT !.disabled = FALSE, !.button = w.cmd.button,
                                 !.cmdText = w.cmd.cmd]
             IN  IF "tooltip" \notin DOMAIN w.cmd
                 THEN Raise([s EXCEPT !.widgets[i] = w2])
                 ELSE updateButton([s EXCEPT !.widgets[i] = setToolTip(w2, w.cmd.tooltip)], i)

revert(s, i) ==
    LET w  == s.widgets[i]
        s1 == [s EXCEPT !.widgets[i].disabled = FALSE]
    IN  IF ~Alive(s, i) THEN Raise(s1)
        ELSE LET w2 == [w EXCEPT !.disabled = FALSE, !.button = w.cmd.button,
                                 !.cmdText = w.cmd.cmd]
             IN  IF "tooltip" \notin DOMAIN w.cmd
                 THEN Raise([s EXCEPT !.widgets[i] = w2])
                 ELSE updateButton([s EXCEPT !.widgets[i] = setToolTip(w2, w.cmd.tooltip)], i)

delete(s, i) ==
    LET s1 == [s EXCEPT !.widgets[i].disabled = ~s.widgets[i].disabled]
    IN  IF ~Alive(s, i) THEN Raise(s1) ELSE updateButton(s1, i)

\* RunnerPopup.show has returned `text`: <<>> for None, or <<the text>>.
Shown(s, text) ==
    [s EXCEPT !.popup = IF text = <<>> THEN "None" ELSE "text",
              !.text = IF text = <<>> THEN <<>> ELSE text[1]]

\* rename / editToolTip from the point where the prompt has returned:
\* `name` and `tooltip` are <<>> for None, or <<text>>.
rename(s, i, name) ==
    LET s0 == Shown(s, name)
        s1 == IF name # <<>> /\ name[1] # <<>>
              THEN [s0 EXCEPT !.widgets[i].button = name[1]]
              ELSE s0
    IN  updateButton(s1, i)

editToolTip(s, i, tooltip) ==
    IF s.widgets[i].buttonTT = NoToolTip THEN Raise(s)
    ELSE IF tooltip = <<>> THEN Shown(s, tooltip)
    ELSE updateButton([Shown(s, tooltip) EXCEPT
                          !.widgets[i] = setToolTip(s.widgets[i], tooltip[1])], i)

----------------------------------------------------------------------------
(* RunnerApp *)

Falsy(path) == path \in {None, Cancelled}
Exists(s, path) == ~Falsy(path) /\ s.fs[path].exists

Ret(s, value) == [s EXCEPT !.ret = value]

addWidget(s, cmd) ==
    [s EXCEPT !.widgets = Append(s.widgets, CmdWidget_init(cmd, TRUE)),
              !.row = s.row + 1]

\* The cmds list json.load gives for a file content, in either form.
readCmds(doc) == doc.cmds

RECURSIVE AddWidgets(_, _, _)
AddWidgets(s, cmds, i) ==
    IF i > Len(cmds) THEN s ELSE AddWidgets(addWidget(s, cmds[i]), cmds, i + 1)

\* The cmdWidth readCmds leaves: the file's "width" if the file has one and
\* self.cmdWidth is not positive yet.
readWidth(doc, width) ==
    IF "width" \in DOMAIN doc /\ width <= 0 THEN doc.width ELSE width

\* self.cmdWidth after parseCmdLine.
parseCmdLine(width) == IF width >= 0 THEN width ELSE 0

\* readCmds raises (ValueError, TypeError) on a malformed file.
loadCmds(s) ==
    IF Exists(s, s.cmdFile)
    THEN IF "cmds" \notin DOMAIN s.fs[s.cmdFile] THEN Raise(s)
         ELSE AddWidgets([s EXCEPT !.cmdWidth = readWidth(s.fs[s.cmdFile], s.cmdWidth)],
                         readCmds(s.fs[s.cmdFile]), 1)
    ELSE s

\* buildGUI with addMenuBar: a new root, a new RunnerFileMenu, row 0.
buildGUI(s) ==
    [s EXCEPT !.destroyed = FALSE, !.isModified = FALSE,
              !.currFile = commandFile, !.row = 0]

\* root.destroy() destroys the popups of the root with it: every wait_window
\* returns, and each waiting handler goes on with a destroyed root, where it
\* returns or raises TclError before it has assigned anything.
\* onExit that leaves self.quit as it is.
RunnerApp_onExit_keepsQuit(s, q) == [s EXCEPT !.destroyed = TRUE, !.popups = <<>>]

RunnerApp_onExit(s, q) == [s EXCEPT !.quit = q, !.destroyed = TRUE, !.popups = <<>>]

RunnerApp_onFileOpen(s, path) ==
    LET s1 == IF ~Falsy(path) THEN [s EXCEPT !.currFile = path] ELSE s
    IN  IF Exists(s1, s1.currFile)
        THEN RunnerApp_onExit([s1 EXCEPT !.cmdFile = s1.currFile], FALSE)
        ELSE s1

RECURSIVE RevertWidgets(_, _)
RevertWidgets(s, i) ==
    IF i > Len(s.widgets) THEN s
    ELSE Try(IF s.widgets[i].added THEN delete(s, i) ELSE revert(s, i),
             LAMBDA s1 : RevertWidgets(s1, i + 1))

onRevert(s) ==
    Try(RevertWidgets(s, 1), LAMBDA s1 : Ret(setModified(s1, FALSE), TRUE))

\* onAddButton from the point where the name prompt has returned `name`
\* (a sequence holding the text, or <<>> for None).
onAddButton(s, name) ==
    IF name = <<>> THEN Shown(s, name)
    ELSE LET cmd == [button |-> name[1], cmd |-> <<>>, tooltip |-> name[1]]
         IN  Try(updateButton(addWidget(Shown(s, name), cmd), Len(s.widgets) + 1),
                 LAMBDA s2 : setModified(s2, TRUE))

RECURSIVE widgetCmdsFrom(_, _)
widgetCmdsFrom(ws, i) ==
    IF i > Len(ws) THEN <<>> ELSE <<ws[i].cmd>> \o widgetCmdsFrom(ws, i + 1)

widgetCmds(s) == widgetCmdsFrom(s.widgets, 1)

RECURSIVE CommitWidgets(_, _)
CommitWidgets(s, i) ==
    IF i > Len(s.widgets) THEN s
    ELSE Try(commit(s, i), LAMBDA s1 : CommitWidgets(s1, i + 1))

\* writeOk: whether open(path, "w") and json.dump succeed; they raise IOError otherwise.
saveToFile(s, path, writeOk) ==
    Try(CommitWidgets(s, 1),
        LAMBDA s1 :
            IF ~writeOk THEN Raise([s1 EXCEPT !.writeFailed = TRUE])
            ELSE Ret([s1 EXCEPT !.fs[path] = DocW(s1.cmdWidth, widgetCmds(s1)),
                                !.wrote = path], TRUE))

----------------------------------------------------------------------------
(* FileMenu / RunnerFileMenu.  `in` holds what the user answers to the     *)
(* dialogs a command may show: resp to askyesnocancel, saveAs to           *)
(* asksaveasfilename, open to askopenfilename, and writeOk for the write.  *)

onFileSaveAs(s, in) ==
    IF ~Falsy(in.saveAs)
    THEN Try(saveToFile([s EXCEPT !.saveAsDlg = in.saveAs], in.saveAs, in.writeOk),
             LAMBDA s1 :
                 IF s1.ret
                 THEN Ret(setModified([s1 EXCEPT !.currFile = in.saveAs], FALSE), TRUE)
                 ELSE Ret(s1, FALSE))
    ELSE Ret([s EXCEPT !.saveAsDlg = in.saveAs], FALSE)

\* onFileSave without the test of isModified: it saves a clean document too.
onFileSave_alwaysSaves(s, in) ==
    Try(IF Falsy(s.currFile)
        THEN onFileSaveAs(s, in)
        ELSE saveToFile(s, s.currFile, in.writeOk),
        LAMBDA s1 :
            IF ~s1.ret THEN Ret(s1, FALSE)
            ELSE Ret(setModified(s1, FALSE), TRUE))

onFileSave(s, in) ==
    IF s.isModified
    THEN Try(IF Falsy(s.currFile)
             THEN onFileSaveAs(s, in)
             ELSE saveToFile(s, s.currFile, in.writeOk),
             LAMBDA s1 :
                 IF ~s1.ret THEN Ret(s1, FALSE)
                 ELSE Ret(setModified(s1, FALSE), TRUE))
    ELSE Ret(s, TRUE)

\* askSave with Cancel answered like No: the caller goes on.
askSave_cancelProceeds(s, in) ==
    IF in.resp = "Yes"
    THEN Try(onFileSave([s EXCEPT !.prompt = in.resp], in), LAMBDA s1 : Ret(s1, TRUE))
    ELSE Ret([s EXCEPT !.prompt = in.resp], TRUE)

askSave(s, in) ==
    IF in.resp = "Cancel" THEN Ret([s EXCEPT !.prompt = in.resp], FALSE)
    ELSE IF in.resp = "Yes"
         THEN Try(onFileSave([s EXCEPT !.prompt = in.resp], in),
                  LAMBDA s1 : Ret(s1, TRUE))
         ELSE Ret([s EXCEPT !.prompt = in.resp], TRUE)

onFileNew(s, in) ==
    Try(IF s.isModified THEN askSave(s, in) ELSE Ret(s, TRUE),
        LAMBDA s1 :
            IF ~s1.ret THEN Ret(s1, FALSE)
            ELSE Ret([setModified(s1, FALSE) EXCEPT !.currFile = None], TRUE))

FileMenu_onFileOpen(s, path, in) ==
    Try(IF s.isModified THEN askSave(s, in) ELSE Ret(s, TRUE),
        LAMBDA s1 :
            IF ~s1.ret THEN Ret(s1, FALSE)
            ELSE IF path # None
                 THEN IF ~Falsy(path) THEN Ret([s1 EXCEPT !.currFile = path], TRUE)
                      ELSE Ret(s1, FALSE)
                 ELSE IF ~Falsy(in.open)
                      THEN Ret([s1 EXCEPT !.openDlg = in.open, !.currFile = in.open], TRUE)
                      ELSE Ret([s1 EXCEPT !.openDlg = in.open], FALSE))

RunnerFileMenu_onFileOpen(s, path, in) ==
    Try(FileMenu_onFileOpen(s, path, in),
        LAMBDA s1 : IF s1.ret THEN RunnerApp_onFileOpen(s1, path) ELSE Ret(s1, FALSE))

FileMenu_onExit(s, in) ==
    IF s.isModified THEN askSave(s, in) ELSE Ret(s, TRUE)

RunnerFileMenu_onExit(s, in) ==
    Try(FileMenu_onExit(s, in),
        LAMBDA s1 : IF s1.ret THEN RunnerApp_onExit(s1, TRUE) ELSE s1)

----------------------------------------------------------------------------
(* The event loop: one action per event the user can send *)

\* The fields a callback uses to tell how it went.
Local ==
    [destroyed |-> FALSE, exc |-> FALSE, ret |-> FALSE, scanned |-> FALSE,
     prompt |-> "-", saveAsDlg |-> "-", openDlg |-> "-",
     wrote |-> "-", writeFailed |-> FALSE, popup |-> "-", text |-> <<>>]

\* The program's fields at the start of a callback.
Begin ==
    [widgets |-> widgets, row |-> row, isModified |-> isModified,
     currFile |-> currFile, cmdFile |-> cmdFile, quit |-> quit, fs |-> fs,
     cmdWidth |-> cmdWidth, popups |-> popups] @@ Local

\* run(): what the loop does once root.mainloop() has returned.
run(s) ==
    IF s.quit THEN s
    ELSE IF Exists(s, s.cmdFile) THEN loadCmds(buildGUI(s))
    ELSE s

\* The entry-level operations, and the commands gated by the confirmation prompt.
EntryOps == {"Key", "Delete", "Revert", "Rename", "EditToolTip", "AddButton"}
GatedOps == {"New", "Open", "Exit"}

\* The callback has ended in s (an exception is reported and dropped); if it
\* destroyed the root, mainloop() returns and run() goes on, to s1.  An
\* exception in run() itself is caught by nobody: the program ends there.
Return(s, s1, op, i) ==
        /\ pc = "mainloop"
        /\ nEvents < MaxEvents
        /\ nEvents' = nEvents + 1
        /\ Len(s1.widgets) <= MaxWidgets
        /\ widgets' = s1.widgets
        /\ row' = s1.row
        /\ isModified' = s1.isModified
        /\ currFile' = s1.currFile
        /\ cmdFile' = s1.cmdFile
        /\ quit' = s1.quit
        /\ fs' = s1.fs
        /\ cmdWidth' = s1.cmdWidth
        /\ argWidth' = argWidth
        /\ popups' = s1.popups
        /\ nWrites' = IF s.wrote = "-" THEN nWrites ELSE nWrites + 1
        /\ pc' = IF s.destroyed /\ s.quit THEN "exited"
                 ELSE IF s.destroyed /\ s1.exc THEN "crashed"
                 ELSE "mainloop"
        /\ last' = [op |-> op, w |-> i, exc |-> s.exc, ret |-> s.ret /\ ~s.exc,
                    scanned |-> s.scanned, prompt |-> s.prompt,
                    saveAsDlg |-> s.saveAsDlg, openDlg |-> s.openDlg,
                    wrote |-> s.wrote, writeFailed |-> s.writeFailed,
                    destroyed |-> s.destroyed,
                    popup |-> s.popup, text |-> s.text,
                    again |-> (op = last.op /\ i = last.w),
                    entryOnly |-> IF s.destroyed THEN TRUE
                                  ELSE last.entryOnly /\ op \in EntryOps]

Finish(s, op, i) == Return(s, IF s.destroyed THEN run(s) ELSE s, op, i)

Live == {i \in 1..Len(widgets) : i > Len(widgets) - row}

\* What the user and the file system can answer, for the dialogs and the
\* write a command can come to in the current state.
NoInput == [resp |-> "-", saveAs |-> "-", open |-> "-", writeOk |-> FALSE]
WriteOutcomes == IF nWrites < MaxWrites THEN BOOLEAN ELSE {FALSE}
SaveAsInputs ==
    {[NoInput EXCEPT !.saveAs = Cancelled]}
        \cup {[NoInput EXCEPT !.saveAs = p, !.writeOk = b] : p \in Paths, b \in WriteOutcomes}
SaveInputs ==
    IF ~isModified THEN {NoInput}
    ELSE IF Falsy(currFile) THEN SaveAsInputs
    ELSE {[NoInput EXCEPT !.writeOk = b] : b \in WriteOutcomes}
GateInputs ==
    IF ~isModified THEN {NoInput}
    ELSE {[NoInput EXCEPT !.resp = r] : r \in {"No", "Cancel"}}
            \cup {[in EXCEPT !.resp = "Yes"] : in \in SaveInputs}
\* askopenfilename gives the path of an existing file, or "" when cancelled.
OpenInputs ==
    {[in EXCEPT !.open = p] : in \in GateInputs,
                              p \in {q \in Paths : fs[q].exists} \cup {Cancelled}}
PromptTexts(texts) == {<<>>} \cup {<<text>> : text \in texts}

\* A key typed into the command field of widget i: the PostInsert binding.
Key(i, text) ==
    /\ i \in Live /\ ~widgets[i].disabled
    /\ Finish(updateButton([Begin EXCEPT !.widgets[i].cmdText = text], i), "Key", i)

Delete(i) ==
    /\ i \in Live
    /\ Finish(delete(Begin, i), "Delete", i)

Revert(i) ==
    /\ i \in Live
    /\ Finish(revert(Begin, i), "Revert", i)

Rename(i, name) ==
    /\ i \in Live
    /\ Finish(rename(Begin, i, name), "Rename", i)

EditToolTip(i, tooltip) ==
    /\ i \in Live
    /\ Finish(editToolTip(Begin, i, tooltip), "EditToolTip", i)

AddButton(name) ==
    /\ Finish(onAddButton(Begin, name), "AddButton", 0)

FileNew(in) ==
    /\ Finish(onFileNew(Begin, in), "New", 0)

FileOpen(in) ==
    /\ Finish(RunnerFileMenu_onFileOpen(Begin, None, in), "Open", 0)

FileRevert ==
    /\ Finish(onRevert(Begin), "FileRevert", 0)

FileSave(in) ==
    /\ Finish(onFileSave(Begin, in), "Save", 0)

FileSaveAs(in) ==
    /\ Finish(onFileSaveAs(Begin, in), "SaveAs", 0)

Exit(in) ==
    /\ Finish(RunnerFileMenu_onExit(Begin, in), "Exit", 0)

\* run() up to the first mainloop(): parseCmdLine, buildGUI, loadCmds.  The
\* command-line file may be missing; the other file exists, differs from it
\* and may be malformed.
Init ==
    /\ argWidth = 0
    /\ fs \in [Paths -> InitialDocs \cup {NoFile, Malformed}]
    /\ fs["f1"] # Malformed
    /\ fs["f2"].exists /\ fs["f1"] # fs["f2"]
    /\ LET s == loadCmds(buildGUI([widgets |-> <<>>, row |-> 0,
                     isModified |-> FALSE, currFile |-> None,
                     cmdFile |-> commandFile, quit |-> FALSE, fs |-> fs,
                     cmdWidth |-> parseCmdLine(argWidth),
                     popups |-> <<>>] @@ Local))
       IN  /\ widgets = s.widgets
           /\ row = s.row
           /\ isModified = s.isModified
           /\ currFile = s.currFile
           /\ cmdFile = s.cmdFile
           /\ quit = s.quit
           /\ cmdWidth = s.cmdWidth
           /\ popups = s.popups
    /\ nWrites = 0
    /\ nEvents = 0
    /\ pc = "mainloop"
    /\ last = [op |-> "run", w |-> 0, exc |-> FALSE, ret |-> FALSE,
               scanned |-> FALSE, prompt |-> "-", saveAsDlg |-> "-",
               openDlg |-> "-", wrote |-> "-", writeFailed |-> FALSE,
               destroyed |-> FALSE, popup |-> "-", text |-> <<>>,
               again |-> FALSE, entryOnly |-> TRUE]

Next ==
    \/ \E i \in 1..MaxWidgets, text \in CmdTexts : Key(i, text)
    \/ \E i \in 1..MaxWidgets : Delete(i)
    \/ \E i \in 1..MaxWidgets : Revert(i)
    \/ \E i \in 1..MaxWidgets, name \in PromptTexts(Names) : Rename(i, name)
    \/ \E i \in 1..MaxWidgets, tooltip \in PromptTexts(Tips) : EditToolTip(i, tooltip)
    \/ \E name \in PromptTexts(Names) : AddButton(name)
    \/ \E in \in GateInputs : FileNew(in)
    \/ \E in \in OpenInputs : FileOpen(in)
    \/ FileRevert
    \/ \E in \in SaveInputs : FileSave(in)
    \/ \E in \in SaveAsInputs : FileSaveAs(in)
    \/ \E in \in GateInputs : Exit(in)

Spec == Init /\ [][Next]_vars

----------------------------------------------------------------------------
(* The text prompts as they run.  RunnerPopup.show waits in wait_window,   *)
(* a nested event loop, and the popup takes no grab: while it is open the  *)
(* main window goes on receiving events.  A handler that has opened a      *)
(* popup goes on when its popup is closed and the handlers started after   *)
(* it have returned, so the waiting handlers resume innermost first.  In   *)
(* Spec a prompt is answered in the step that opens it; here opening and   *)
(* resuming are two steps, with other events in between.                   *)

PopupOps == {"AddButton", "Rename", "EditToolTip"}

\* The handler has built its RunnerPopup and waits in show().
OpenPopup(op, i) ==
    /\ Len(popups) < MaxPopups
    /\ op = "AddButton" => i = 0
    /\ op # "AddButton" => i \in Live
    /\ IF op = "EditToolTip" /\ widgets[i].buttonTT = NoToolTip
       THEN Finish(Raise(Begin), op, i)
       ELSE Finish([Begin EXCEPT !.popups = Append(popups, [op |-> op, w |-> i])],
                   "Popup", i)

\* The innermost popup has been closed with `text` (<<>> for None) and its
\* handler goes on.
ResumePopup(text) ==
    /\ popups # <<>>
    /\ LET p == popups[Len(popups)]
           s == [Begin EXCEPT !.popups = SubSeq(popups, 1, Len(popups) - 1)]
       IN  /\ text \in PromptTexts(IF p.op = "EditToolTip" THEN Tips ELSE Names)
           /\ Finish(IF p.op = "AddButton" THEN onAddButton(s, text)
                     ELSE IF p.op = "Rename" THEN rename(s, p.w, text)
                     ELSE editToolTip(s, p.w, text),
                     p.op, p.w)

NextPopups ==
    \/ \E i \in 1..MaxWidgets, text \in CmdTexts : Key(i, text)
    \/ \E i \in 1..MaxWidgets : Delete(i)
    \/ \E i \in 1..MaxWidgets : Revert(i)
    \/ \E op \in PopupOps, i \in 0..MaxWidgets : OpenPopup(op, i)
    \/ \E text \in PromptTexts(Names \cup Tips) : ResumePopup(text)
    \/ \E in \in GateInputs : FileNew(in)
    \/ \E in \in OpenInputs : FileOpen(in)
    \/ FileRevert
    \/ \E in \in SaveInputs : FileSave(in)
    \/ \E in \in SaveAsInputs : FileSaveAs(in)
    \/ \E in \in GateInputs : Exit(in)

SpecPopups == Init /\ [][NextPopups]_vars

----------------------------------------------------------------------------
(* One entry, over more values.  The document holds one entry, or that     *)
(* entry followed by a second one, loaded from a file whose label, command *)
(* and tooltip are drawn from texts with blanks and a trailing "*"; the    *)
(* user edits it with such texts, and commit() is also applied on its own. *)

EntryLabels == {<<"a">>, <<"a", "*">>, <<" ", "a">>}
EntryCmds == {<<"x">>, <<"x", " ">>}
EntryTips == {<<"t">>, <<"t", " ">>}

\* The objects a command file can hold for an entry: the tooltip is optional.
EntryRecords ==
    [button : EntryLabels, cmd : EntryCmds]
        \cup [button : EntryLabels, cmd : EntryCmds, tooltip : EntryTips]

SecondEntry == [button |-> <<"b">>, cmd |-> <<"y">>, tooltip |-> <<"v">>]

EntryDocs ==
    {Doc(bare, <<c>>) : bare \in BOOLEAN, c \in EntryRecords}
        \cup {Doc(FALSE, <<c, SecondEntry>>) : c \in EntryRecords}

\* commit() of widget i, as saveToFile calls it.
Commit(i) ==
    /\ i \in Live
    /\ Finish(commit(Begin, i), "Commit", i)

InitEntry ==
    /\ argWidth = 0
    /\ fs \in [Paths -> EntryDocs \cup {NoFile}]
    /\ fs["f1"].exists /\ fs["f2"] = NoFile
    /\ LET s == loadCmds(buildGUI([widgets |-> <<>>, row |-> 0,
                     isModified |-> FALSE, currFile |-> None,
                     cmdFile |-> commandFile, quit |-> FALSE, fs |-> fs,
                     cmdWidth |-> parseCmdLine(argWidth),
                     popups |-> <<>>] @@ Local))
       IN  /\ widgets = s.widgets
           /\ row = s.row
           /\ isModified = s.isModified
           /\ currFile = s.currFile
           /\ cmdFile = s.cmdFile
           /\ quit = s.quit
           /\ cmdWidth = s.cmdWidth
           /\ popups = s.popups
    /\ nWrites = 0
    /\ nEvents = 0
    /\ pc = "mainloop"
    /\ last = [op |-> "run", w |-> 0, exc |-> FALSE, ret |-> FALSE,
               scanned |-> FALSE, prompt |-> "-", saveAsDlg |-> "-",
               openDlg |-> "-", wrote |-> "-", writeFailed |-> FALSE,
               destroyed |-> FALSE, popup |-> "-", text |-> <<>>,
               again |-> FALSE, entryOnly |-> TRUE]

NextEntry ==
    \/ \E text \in EntryCmds : Key(1, text)
    \/ Delete(1)
    \/ Revert(1)
    \/ \E name \in PromptTexts(EntryLabels) : Rename(1, name)
    \/ \E tooltip \in PromptTexts(EntryTips) : EditToolTip(1, tooltip)
    \/ Commit(1)
    \/ \E in \in SaveAsInputs : FileSaveAs(in)

SpecEntry == InitEntry /\ [][NextEntry]_vars

----------------------------------------------------------------------------
(* The width of the command field: command files with and without a        *)
(* "width", with and without the -w option, loaded, opened and saved.      *)

ArgWidths == {0, 30}

WidthCmds == <<[button |-> <<"a">>, cmd |-> <<"x">>, tooltip |-> <<"t">>]>>
WidthDocs == {DocW(40, WidthCmds), DocW(60, WidthCmds), Doc(FALSE, WidthCmds),
              Doc(TRUE, WidthCmds)}

InitWidth ==
    /\ argWidth \in ArgWidths
    /\ fs \in [Paths -> WidthDocs]
    /\ fs["f1"] # fs["f2"]
    /\ LET s == loadCmds(buildGUI([widgets |-> <<>>, row |-> 0,
                     isModified |-> FALSE, currFile |-> None,
                     cmdFile |-> commandFile, quit |-> FALSE, fs |-> fs,
                     cmdWidth |-> parseCmdLine(argWidth),
                     popups |-> <<>>] @@ Local))
       IN  /\ widgets = s.widgets
           /\ row = s.row
           /\ isModified = s.isModified
           /\ currFile = s.currFile
           /\ cmdFile = s.cmdFile
           /\ quit = s.quit
           /\ cmdWidth = s.cmdWidth
           /\ popups = s.popups
    /\ nWrites = 0
    /\ nEvents = 0
    /\ pc = "mainloop"
    /\ last = [op |-> "run", w |-> 0, exc |-> FALSE, ret |-> FALSE,
               scanned |-> FALSE, prompt |-> "-", saveAsDlg |-> "-",
               openDlg |-> "-", wrote |-> "-", writeFailed |-> FALSE,
               destroyed |-> FALSE, popup |-> "-", text |-> <<>>,
               again |-> FALSE, entryOnly |-> TRUE]

NextWidth ==
    \/ \E i \in 1..MaxWidgets, text \in CmdTexts : Key(i, text)
    \/ \E in \in OpenInputs : FileOpen(in)
    \/ \E in \in SaveInputs : FileSave(in)
    \/ \E in \in SaveAsInputs : FileSaveAs(in)

SpecWidth == InitWidth /\ [][NextWidth]_vars

----------------------------------------------------------------------------
(* Properties *)

\* The entries of the document on screen, and what isModified() gives for them.
EntryIsModified(i) == CmdWidget_isModified(widgets[i], TRUE) = "True"
AnyEntryModified == \E i \in Live : EntryIsModified(i)

\* The cmd records of the entries on screen that are not disabled, in order.
LiveWidgets == SubSeq(widgets, Len(widgets) - row + 1, Len(widgets))
EnabledWidgets == SelectSeq(LiveWidgets, LAMBDA w : ~w.disabled)
EnabledCmds == [k \in 1..Len(EnabledWidgets) |-> EnabledWidgets[k].cmd]

\* C1: from a freshly loaded document, after entry-level operations only, once
\* the handler of the last one has run the re-scan onUpdate, the document's
\* isModified equals the OR of isModified() over the entries.
C1_RescanGivesOr ==
    (last.entryOnly /\ last.op \in EntryOps /\ last.scanned)
        => (isModified = AnyEntryModified)

\* C2: whenever control is back in the event loop, the document's isModified
\* is true iff some entry satisfies isModified().
C2_FlagConsistent ==
    pc = "mainloop" => (isModified = AnyEntryModified)

\* C3: New, Open or Exit on a modified document, answered Cancel at the
\* confirmation prompt, changes nothing: entries, isModified, currentPath, the
\* running status and the files are as before.
C3_CancelRestores ==
    [][(last'.op \in GatedOps /\ last'.prompt = "Cancel")
         => /\ widgets' = widgets /\ row' = row
            /\ isModified' = isModified
            /\ currFile' = currFile /\ cmdFile' = cmdFile
            /\ quit' = quit /\ pc' = pc
            /\ fs' = fs]_vars

\* C3 witness: a gated command has just been cancelled on a modified document
\* that has entries.
C3_Witness ==
    /\ last.op \in GatedOps /\ last.prompt = "Cancel"
    /\ isModified /\ Live # {}

\* C4: New, Open or Exit on a modified document, answered Save, with a save
\* that did not succeed (nothing was written), is aborted as if Cancel had
\* been answered: no reset, load or exit takes place.
C4_FailedSaveAborts ==
    (last.op \in GatedOps /\ last.prompt = "Yes" /\ last.wrote = "-")
        => /\ ~last.destroyed
           /\ ~(last.op = "New" /\ last.ret)

\* C5: after a Save whose write failed, isModified is still true and
\* currentPath is unchanged.
C5_FailedSaveStaysDirty ==
    [][(last'.op = "Save" /\ last'.writeFailed)
         => (isModified' /\ currFile' = currFile)]_vars

\* C6: a Save or SaveAs that wrote nothing leaves every entry's committed
\* values and added flag as they were.
C6_SaveAtomic ==
    [][(last'.op \in {"Save", "SaveAs"} /\ last'.wrote = "-")
         => /\ Len(widgets') = Len(widgets)
            /\ \A i \in 1..Len(widgets) :
                  /\ widgets'[i].cmd = widgets[i].cmd
                  /\ widgets'[i].added = widgets[i].added]_vars

\* C7: the cmds written by a successful Save or SaveAs are exactly the entries
\* that are not disabled, in document order.
C7_DisabledNotWritten ==
    (last.op \in {"Save", "SaveAs"} /\ last.wrote # "-")
        => fs[last.wrote].cmds = EnabledCmds

\* C8: right after a load the document's isModified is false and every loaded
\* entry has added = false, disabled = false and isModified() = false.
C8_LoadedClean ==
    (pc = "mainloop" /\ (last.op = "run" \/ last.destroyed))
        => /\ ~isModified
           /\ \A i \in Live :
                 /\ ~widgets[i].added
                 /\ ~widgets[i].disabled
                 /\ CmdWidget_isModified(widgets[i], TRUE) = "False"

\* C9: after a successful Open of path P, currentPath is P.
C9_OpenSetsCurrentPath ==
    (last.op = "Open" /\ last.destroyed) => currFile = last.openDlg

\* C10: when New proceeds, no entry of the previous document remains,
\* isModified is false and currentPath is cleared.
C10_NewResets ==
    (last.op = "New" /\ last.ret)
        => (Live = {} /\ ~isModified /\ currFile = None)

\* Live label / command / tooltip of an entry equal its committed values.
LiveEqualsCommitted(w) ==
    /\ w.button = w.cmd.button
    /\ w.cmdText = w.cmd.cmd
    /\ "tooltip" \in DOMAIN w.cmd
    /\ w.buttonTT = ToolTip(w.cmd.tooltip)
    /\ w.cmdTextTT = ToolTip(w.cmd.tooltip)

\* C11: after the document-level Revert (its handler having run to the end) no
\* entry with added = true is left in the entry list, every remaining entry
\* shows its committed label, command and tooltip and is not disabled, and
\* isModified is false.
C11_RevertAll ==
    (last.op = "FileRevert" /\ ~last.exc)
        => /\ \A i \in Live :
                 /\ ~widgets[i].added
                 /\ ~widgets[i].disabled
                 /\ LiveEqualsCommitted(widgets[i])
           /\ ~isModified

\* C12: the per-entry Revert (its handler having run to the end) on an entry
\* with added = true removes that entry from the entry list, and afterwards the
\* document's isModified is true iff some other entry is modified.
C12_RevertRemovesNew ==
    [][(last'.op = "Revert" /\ ~last'.exc /\ widgets[last'.w].added)
         => /\ Len(widgets') = Len(widgets) - 1
            /\ row' = row - 1
            /\ isModified' =
                 (\E j \in 1..Len(widgets') :
                     /\ j > Len(widgets') - row'
                     /\ CmdWidget_isModified(widgets'[j], TRUE) = "True")]_vars

\* The Save As prompt was shown by the last Save or SaveAs command.
SaveAsPrompted(l) == l.op \in {"Save", "SaveAs"} /\ l.saveAsDlg # "-"

\* C13, prompt cancelled or empty: nothing is written and entries, isModified
\* and currentPath are unchanged.
C13_Cancelled ==
    [][(SaveAsPrompted(last') /\ last'.saveAsDlg = Cancelled)
         => /\ last'.wrote = "-" /\ fs' = fs
            /\ widgets' = widgets /\ row' = row
            /\ isModified' = isModified /\ currFile' = currFile]_vars

\* C13, write succeeded: currentPath is the chosen path and isModified is false.
C13_Succeeded ==
    [][(SaveAsPrompted(last') /\ last'.wrote # "-")
         => /\ last'.wrote = last'.saveAsDlg
            /\ currFile' = last'.saveAsDlg /\ ~isModified']_vars

\* C13: SaveAs, invoked directly or reached from Save on a modified document
\* without currentPath, sets currentPath to the chosen path and clears
\* isModified if and only if the path is not empty and the write succeeded;
\* with a cancelled prompt it writes nothing and leaves entries, isModified
\* and currentPath unchanged.
C13_SaveAs ==
    [][SaveAsPrompted(last')
         => IF last'.saveAsDlg = Cancelled
            THEN /\ last'.wrote = "-" /\ fs' = fs
                 /\ widgets' = widgets /\ row' = row
                 /\ isModified' = isModified /\ currFile' = currFile
            ELSE IF last'.wrote # "-"
            THEN currFile' = last'.saveAsDlg /\ ~isModified'
            ELSE currFile' = currFile /\ isModified' = isModified]_vars

\* C14: Save on a document whose isModified is false reports success and does
\* nothing: no prompt, no write, and entries, isModified and currentPath are
\* unchanged.
C14_CleanSaveNoOp ==
    [][(last'.op = "Save" /\ ~isModified)
         => /\ last'.ret /\ ~last'.exc
            /\ last'.saveAsDlg = "-" /\ last'.prompt = "-"
            /\ last'.wrote = "-" /\ ~last'.writeFailed /\ fs' = fs
            /\ widgets' = widgets /\ row' = row
            /\ isModified' = isModified /\ currFile' = currFile]_vars

\* C14 witness: Save has just returned success without writing, on a document
\* that has entries, one of them with edits not yet committed.
C14_Witness ==
    /\ last.op = "Save" /\ last.ret /\ last.wrote = "-"
    /\ ~isModified
    /\ \E i \in Live : widgets[i].cmdText # widgets[i].cmd.cmd

\* What Add Button is to leave behind: with a label, the entries as they were
\* followed by one new entry (added, empty command, tooltip = label) and
\* isModified true; with a cancelled prompt, entries and isModified unchanged.
AddButtonEffect ==
    IF last'.popup = "text"
    THEN /\ Len(widgets') = Len(widgets) + 1
         /\ row' = row + 1
         /\ SubSeq(widgets', 1, Len(widgets)) = widgets
         /\ LET w == widgets'[Len(widgets')]
            IN  /\ w.added /\ ~w.disabled
                /\ w.cmd = [button |-> last'.text, cmd |-> <<>>, tooltip |-> last'.text]
                /\ w.cmdText = <<>>
                /\ w.buttonTT = ToolTip(last'.text)
                /\ w.cmdTextTT = ToolTip(last'.text)
         /\ isModified'
    ELSE /\ widgets' = widgets /\ row' = row
         /\ isModified' = isModified

\* C15 where the handler runs to its end.
C15_AddButtonCompleted ==
    [][(last'.op = "AddButton" /\ ~last'.exc) => AddButtonEffect]_vars

\* C15: Add Button with a label appends exactly one entry at the end, with
\* added = true, empty command and tooltip = label, leaves the earlier entries
\* unchanged and leaves isModified true; with the prompt cancelled nothing is
\* added and isModified is unchanged.
C15_AddButton ==
    [][last'.op = "AddButton" => AddButtonEffect]_vars

\* The last command was an Open of a file that cannot be loaded, with nothing
\* saved on the way.
OpenedUnloadable(l, files) ==
    /\ l.op = "Open" /\ l.prompt # "Yes"
    /\ l.openDlg \in Paths
    /\ files[l.openDlg] = Malformed

\* C16: Open of a target that cannot be loaded aborts the load and leaves the
\* document as it was: the same entries with the same live and committed
\* values, the same isModified and currentPath, and the program still running.
C16_FailedOpenKeepsDocument ==
    [][OpenedUnloadable(last', fs)
         => /\ widgets' = widgets /\ row' = row
            /\ isModified' = isModified /\ currFile' = currFile
            /\ pc' = "mainloop"]_vars

\* C17: while a text prompt is open no other input is processed: the next
\* thing to happen is the resumption of the handler that opened the innermost
\* prompt.
C17_PromptsModal ==
    [][popups # <<>>
         => /\ popups' = SubSeq(popups, 1, Len(popups) - 1)
            /\ last'.op = popups[Len(popups)].op
            /\ last'.w = popups[Len(popups)].w]_vars

\* C18: a document loaded and written back with no edit in between is written,
\* and the cmds written hold the same label, command and tooltip for every
\* entry, in the same order, as the cmds loaded.
C18_RoundTrip ==
    [][(/\ last.op = "run"
        /\ last'.op = "SaveAs" /\ last'.saveAsDlg \in Paths /\ ~last'.writeFailed)
         => /\ last'.wrote # "-"
            /\ fs'[last'.saveAsDlg].cmds = fs[cmdFile].cmds]_vars

\* C19: commit() applied twice in a row to an entry leaves the entry (committed
\* values, live values, disabled, added) as the first commit() left it, and
\* likewise for revert().
C19_CommitRevertIdempotent ==
    [][(last'.op \in {"Commit", "Revert"} /\ last'.again) => widgets' = widgets]_vars

\* C19 witness: commit() has just run to its end a second time in a row, on a
\* disabled entry whose label carries the marker.
C19_Witness ==
    /\ last.op = "Commit" /\ last.again /\ ~last.exc
    /\ widgets[last.w].disabled
    /\ widgets[last.w].button # widgets[last.w].cmd.button

\* And revert() has, on an entry whose label carries the marker.
C19_WitnessRevert ==
    /\ last.op = "Revert" /\ last.again /\ ~last.exc
    /\ widgets[last.w].button # widgets[last.w].cmd.button

\* What the entry's isModified() is to be: some live value differs from the
\* committed one (the label taken without the marker), or the entry is
\* disabled, or added.
EntryDiffers(w) ==
    \/ rstrip(w.button, {"*"}) # w.cmd.button
    \/ w.cmdText # w.cmd.cmd
    \/ w.buttonTT # ToolTip(w.cmd.tooltip)
    \/ w.cmdTextTT # ToolTip(w.cmd.tooltip)
    \/ w.disabled
    \/ w.added

\* C20: for every entry (here: those that have a tooltip), isModified() is
\* true exactly when the live label, command or tooltip differs from the
\* committed one, or the entry is disabled, or added.
C20_IsModifiedExact ==
    \A i \in Live :
        "tooltip" \in DOMAIN widgets[i].cmd
            => ((CmdWidget_isModified(widgets[i], TRUE) = "True")
                    <=> EntryDiffers(widgets[i]))

\* The label shown ends with the marker; it ends with more than one.
HasMarker(label) == label # <<>> /\ label[Len(label)] = "*"
HasMarkers(label) == Len(label) >= 2 /\ label[Len(label)] = "*" /\ label[Len(label) - 1] = "*"

\* C21: whenever control is back in the event loop, each entry's label ends
\* with the marker "*" iff the entry's isModified() is true, and never with
\* more than one marker.
C21_MarkerExact ==
    pc = "mainloop"
        => \A i \in Live :
              /\ HasMarker(widgets[i].button) <=> EntryIsModified(i)
              /\ ~HasMarkers(widgets[i].button)

\* The last command was an Exit that is to go through: the document was clean,
\* or the prompt was answered No, or Yes with a save that wrote the file.
ExitGoesThrough ==
    /\ last'.op = "Exit"
    /\ \/ ~isModified
       \/ last'.prompt = "No"
       \/ last'.prompt = "Yes" /\ last'.wrote # "-"

\* C23: Exit on a clean document, or answered Discard, or answered Save with a
\* save that succeeds, ends the program: quit is set, the loop of run() ends
\* and no GUI is built again; on a clean document no prompt is shown.
C23_ExitTerminates ==
    [][ExitGoesThrough
         => /\ quit' /\ pc' = "exited"
            /\ row' = row
            /\ ~isModified => last'.prompt = "-"]_vars

\* C23 witness: the program has ended by an Exit answered Discard on a
\* modified document with entries.
C23_Witness ==
    /\ last.op = "Exit" /\ last.prompt = "No"
    /\ pc = "exited" /\ quit /\ Live # {}

\* Further cases of C23 reached: Exit on a clean document, and Exit answered
\* Save with a save that wrote the file.
C23_WitnessClean == last.op = "Exit" /\ last.prompt = "-" /\ pc = "exited"
C23_WitnessSaved == last.op = "Exit" /\ last.prompt = "Yes" /\ last.wrote # "-" /\ pc = "exited"

\* C24: the document-level Revert run twice in a row (both to the end) leaves
\* every entry and isModified as the first run left them.
C24_RevertAllIdempotent ==
    [][(last'.op = "FileRevert" /\ last'.again /\ ~last.exc /\ ~last'.exc)
         => (widgets' = widgets /\ isModified' = isModified)]_vars

\* C22: after every load the document's width is the width recorded in the
\* loaded file when it has one, and the caller's default when it has none
\* (here: with no -w option given, so that default is 0); and a save writes
\* the document's width.
C22_WidthFromDocument ==
    /\ (/\ argWidth = 0
        /\ pc = "mainloop" /\ (last.op = "run" \/ last.destroyed))
         => cmdWidth = IF "width" \in DOMAIN fs[cmdFile]
                       THEN fs[cmdFile].width
                       ELSE argWidth
    /\ (last.op \in {"Save", "SaveAs"} /\ last.wrote # "-")
         => fs[last.wrote].width = cmdWidth

====
